---------------------------- MODULE Spec2Model ----------------------------
(***************************************************************************)
(* Model of the gem5 experiment scripts:                                   *)
(*   src/run_experiments.py   sequential driver, one simulator run per     *)
(*                            entry of CONFIGS, metrics to a CSV           *)
(*   src/classify_misses.py   the same driver for the three-configuration  *)
(*                            miss classification                          *)
(*   src/assignment3.py       the configuration script the simulator runs  *)
(*                                                                         *)
(* Texts (file contents, tokens, option names) are sequences of one-       *)
(* character strings, so that matching, splitting and number parsing are   *)
(* computed character by character as the Python code computes them.       *)
(***************************************************************************)
EXTENDS Integers, Sequences, FiniteSets, TLC

VARIABLES
    \* --- parse_stat / extract_metrics / extract_l1d_misses applied to one file
    stats_content,  \* the text of a stats.txt
    file_exists,    \* whether that stats.txt exists
    stat_name,      \* the stat looked up
    chosen,         \* the token written for each stat of a generated stats.txt
    called,         \* which function has been applied ("none" before)
    ret,            \* what it returned
    \* --- the drivers (run_experiments.main, classify_misses.main)
    prog,           \* which driver runs
    pc,             \* where main is
    idx,            \* position of the for loop in CONFIGS
    running,        \* the simulator subprocesses alive
    launched,       \* the configurations launched so far, in order
    exit_status,    \* returncode of each configuration's subprocess (-1: none yet)
    stats_file,     \* <output_dir>/stats.txt of each configuration
    success,        \* what run_gem5_simulation returned in this iteration
    results,        \* main's results (a list of rows, or a dict by name)
    breakdown,      \* classify_misses: the five miss numbers once computed
    verification,   \* classify_misses: which verification branch was printed
    csv_file,       \* the CSV written (None: not written)
    exit_code,      \* the driver's own exit status (-1 while it runs)
    \* --- assignment3.py, run by the simulator
    argv,           \* the script's arguments
    launcher,       \* who built them: a driver or a shell user
    isa,            \* the ISA the simulator binary supports
    spc,            \* where the script is
    args,           \* the namespace parse_args returned
    bp_core,        \* the branch predictor set on the core
    cache_hierarchy,\* the cache hierarchy constructed
    board,          \* the board constructed
    script_exit     \* the script's exit status (-1 while it runs)

parseVars == <<stats_content, file_exists, stat_name, chosen, called, ret>>
driverVars == <<prog, pc, idx, running, launched, exit_status, stats_file,
                success, results, breakdown, verification, csv_file, exit_code>>

scriptVars == <<argv, launcher, isa, spc, args, bp_core, cache_hierarchy, board,
                script_exit>>

vars == <<parseVars, driverVars, scriptVars>>

-----------------------------------------------------------------------------
(* Bounds of the model *)

\* longest text enumerated exhaustively for parse_stat
MaxLen == 4

\* largest count written into a generated stats.txt
MaxCount == 3

\* largest L1D miss count a simulator run of classify_misses reports
MaxMisses == 3

-----------------------------------------------------------------------------
(* Text helpers: Python's str operations on character sequences *)

\* Python's \s and str.strip() whitespace, on the characters of the model
IsSpace(c) == c \in {" ", "\n", "\t"}

\* the digits int() and float() accept
DigitVal(c) ==
    CASE c = "0" -> 0 [] c = "1" -> 1 [] c = "2" -> 2 [] c = "3" -> 3
      [] c = "4" -> 4 [] c = "5" -> 5 [] c = "6" -> 6 [] c = "7" -> 7
      [] c = "8" -> 8 [] c = "9" -> 9 [] OTHER -> -1

IsDigit(c) == DigitVal(c) >= 0

\* re.MULTILINE '^': the start of the text or the position after a newline
LineStart(s, i) == i = 1 \/ s[i - 1] = "\n"

\* re.escape(stat_name): the name matches literally at position i
LiteralAt(s, i, name) ==
    /\ i + Len(name) - 1 <= Len(s)
    /\ \A k \in 1..Len(name) : s[i + k - 1] = name[k]

\* greedy \s+ from j: the first position at or after j that is not whitespace
RECURSIVE SkipSpace(_, _)
SkipSpace(s, j) ==
    IF j <= Len(s) /\ IsSpace(s[j]) THEN SkipSpace(s, j + 1) ELSE j

\* greedy \S+ from j: the first position at or after j that is whitespace
RECURSIVE SkipNonSpace(_, _)
SkipNonSpace(s, j) ==
    IF j <= Len(s) /\ ~IsSpace(s[j]) THEN SkipNonSpace(s, j + 1) ELSE j

\* the pattern ^name\s+(\S+) matches at position i
PatternAt(s, i, name) ==
    /\ LineStart(s, i)
    /\ LiteralAt(s, i, name)
    /\ i + Len(name) <= Len(s)
    /\ IsSpace(s[i + Len(name)])
    /\ SkipSpace(s, i + Len(name)) <= Len(s)

\* re.search: the leftmost position where the pattern matches, 0 for no match
re_search(s, name) ==
    LET hits == {i \in 1..Len(s) : PatternAt(s, i, name)}
    IN  IF hits = {} THEN 0 ELSE CHOOSE i \in hits : \A j \in hits : i <= j

\* match.group(1) of the match at position i
group1(s, i, name) ==
    LET b == SkipSpace(s, i + Len(name))
    IN  SubSeq(s, b, SkipNonSpace(s, b) - 1)

\* value.split('#')[0]
RECURSIVE split_hash_0(_)
split_hash_0(v) ==
    IF v = <<>> \/ Head(v) = "#" THEN <<>> ELSE <<Head(v)>> \o split_hash_0(Tail(v))

\* str.strip()
RECURSIVE lstrip(_)
lstrip(v) == IF v # <<>> /\ IsSpace(Head(v)) THEN lstrip(Tail(v)) ELSE v

RECURSIVE rstrip(_)
rstrip(v) ==
    IF v # <<>> /\ IsSpace(v[Len(v)]) THEN rstrip(SubSeq(v, 1, Len(v) - 1)) ELSE v

strip(v) == rstrip(lstrip(v))

\* the string "N/A"
NA == <<"N", "/", "A">>

\* Python's None and a present value, for functions that return either
None == <<>>
Some(v) == <<v>>

\* the value both parse_stat functions return on a match at position i
matched_value(s, i, name) == strip(split_hash_0(group1(s, i, name)))

\* run_experiments.parse_stat: the value, "N/A" when the pattern matches nowhere
parse_stat(content, name) ==
    LET i == re_search(content, name)
    IN  IF i # 0 THEN matched_value(content, i, name) ELSE NA

\* classify_misses.parse_stat: the value, None when the pattern matches nowhere
cm_parse_stat(content, name) ==
    LET i == re_search(content, name)
    IN  IF i # 0 THEN Some(matched_value(content, i, name)) ELSE None

-----------------------------------------------------------------------------
(* Numbers: int(), float(), str() and the '.6f' format *)

\* The number tokens of the model are written with digits and a leading '-'.
\* int(v) and float(v) succeed on exactly those (other characters of the model:
\* letters, '#', '/', '_'-free and '.'-free tokens, make both raise ValueError)
Digits(v) == IF v # <<>> /\ Head(v) = "-" THEN Tail(v) ELSE v

IsNegative(v) == v # <<>> /\ Head(v) = "-"

IsNumber(v) == Digits(v) # <<>> /\ \A k \in 1..Len(Digits(v)) : IsDigit(Digits(v)[k])

\* the value of a digit string
RECURSIVE DecVal(_)
DecVal(v) ==
    IF v = <<>> THEN 0 ELSE 10 * DecVal(SubSeq(v, 1, Len(v) - 1)) + DigitVal(v[Len(v)])

\* int(v), and float(v) up to the sign of zero
IntVal(v) == IF IsNegative(v) THEN 0 - DecVal(Digits(v)) ELSE DecVal(Digits(v))

DigitChars == <<"0", "1", "2", "3", "4", "5", "6", "7", "8", "9">>

\* str(n), n >= 0
RECURSIVE DecStr(_)
DecStr(n) ==
    IF n < 10 THEN <<DigitChars[n + 1]>>
    ELSE DecStr(n \div 10) \o <<DigitChars[(n % 10) + 1]>>

\* n as exactly six digits
Six(n) ==
    [k \in 1..6 |->
        DigitChars[((n \div (CASE k = 1 -> 100000 [] k = 2 -> 10000 [] k = 3 -> 1000
                               [] k = 4 -> 100 [] k = 5 -> 10 [] OTHER -> 1)) % 10) + 1]]

\* f"{m / a:.6f}" for integers m >= 0, a > 0: m/a rounded to the nearest
\* millionth (no quotient of the model's numbers lies halfway between two)
format_6f(m, a) ==
    LET q == (2 * m * 1000000 + a) \div (2 * a)
    IN  DecStr(q \div 1000000) \o <<".">> \o Six(q % 1000000)

\* f"{float(misses) / float(accesses):.6f}" for number tokens, float(accesses) > 0;
\* a negative numerator (-0.0 included) prints its sign
format_ratio(misses, accesses) ==
    (IF IsNegative(misses) THEN <<"-">> ELSE <<>>)
        \o format_6f(DecVal(Digits(misses)), IntVal(accesses))

-----------------------------------------------------------------------------
(* The names of the statistics read from stats.txt *)

S_BOARD == <<"b", "o", "a", "r", "d", ".">>
S_CORE == <<"p", "r", "o", "c", "e", "s", "s", "o", "r", ".", "c", "o", "r", "e", "s", ".", "c", "o", "r", "e", ".">>
S_RUBY == <<"c", "a", "c", "h", "e", "_", "h", "i", "e", "r", "a", "r", "c", "h", "y", ".", "r", "u", "b", "y", "_", "s", "y", "s", "t", "e", "m", ".">>
S_L1D == <<"l", "1", "_", "c", "o", "n", "t", "r", "o", "l", "l", "e", "r", "s", ".", "L", "1", "D", "c", "a", "c", "h", "e", ".">>
S_L1I == <<"l", "1", "_", "c", "o", "n", "t", "r", "o", "l", "l", "e", "r", "s", ".", "L", "1", "I", "c", "a", "c", "h", "e", ".">>
S_L2 == <<"l", "2", "_", "c", "o", "n", "t", "r", "o", "l", "l", "e", "r", "s", ".", "L", "2", "c", "a", "c", "h", "e", ".">>
S_HITS == <<"m", "_", "d", "e", "m", "a", "n", "d", "_", "h", "i", "t", "s">>
S_MISSES == <<"m", "_", "d", "e", "m", "a", "n", "d", "_", "m", "i", "s", "s", "e", "s">>
S_ACCESSES == <<"m", "_", "d", "e", "m", "a", "n", "d", "_", "a", "c", "c", "e", "s", "s", "e", "s">>
S_NUMINSTS == <<"t", "h", "r", "e", "a", "d", "_", "0", ".", "n", "u", "m", "I", "n", "s", "t", "s">>
S_NUMCYCLES == <<"n", "u", "m", "C", "y", "c", "l", "e", "s">>
S_L1REPL == <<"L", "1", "C", "a", "c", "h", "e", "_", "C", "o", "n", "t", "r", "o", "l", "l", "e", "r", ".", "L", "1", "_", "R", "e", "p", "l", "a", "c", "e", "m", "e", "n", "t">>
S_AVGGAP == <<"m", "e", "m", "o", "r", "y", ".", "m", "e", "m", "_", "c", "t", "r", "l", ".", "a", "v", "g", "G", "a", "p">>

NUM_INSTS == S_BOARD \o S_CORE \o S_NUMINSTS
NUM_CYCLES == S_BOARD \o S_CORE \o S_NUMCYCLES
L1D_HITS == S_BOARD \o S_RUBY \o S_L1D \o S_HITS
L1D_MISSES == S_BOARD \o S_RUBY \o S_L1D \o S_MISSES
L1D_ACCESSES == S_BOARD \o S_RUBY \o S_L1D \o S_ACCESSES
L1I_MISSES == S_BOARD \o S_RUBY \o S_L1I \o S_MISSES
L1I_ACCESSES == S_BOARD \o S_RUBY \o S_L1I \o S_ACCESSES
L2_MISSES == S_BOARD \o S_RUBY \o S_L2 \o S_MISSES
L2_ACCESSES == S_BOARD \o S_RUBY \o S_L2 \o S_ACCESSES
L1_REPLACEMENTS == S_BOARD \o S_RUBY \o S_L1REPL
AVG_GAP == S_BOARD \o S_AVGGAP

-----------------------------------------------------------------------------
(* run_experiments.py: extract_metrics *)

\* a calc_miss_rate that counts unreadable misses as 0
calc_miss_rate_zero_default(misses, accesses) ==
    IF accesses = NA THEN NA
    ELSE IF ~IsNumber(accesses) THEN NA
    ELSE IF ~(IntVal(accesses) > 0) THEN NA
    ELSE IF ~IsNumber(misses) THEN format_ratio(<<"0">>, accesses)
    ELSE format_ratio(misses, accesses)

\* calc_miss_rate: the condition is evaluated first (accesses != "N/A", then
\* float(accesses) > 0), then float(misses) / float(accesses); any exception
\* gives "N/A"
calc_miss_rate(misses, accesses) ==
    IF accesses = NA THEN NA
    ELSE IF ~IsNumber(accesses) THEN NA          \* float(accesses) raises
    ELSE IF ~(IntVal(accesses) > 0) THEN NA
    ELSE IF ~IsNumber(misses) THEN NA            \* float(misses) raises
    ELSE format_ratio(misses, accesses)

\* extract_metrics: None when stats.txt does not exist, else the metrics dict.
\* file is None or Some(text)
extract_metrics(file) ==
    IF file = None THEN None
    ELSE LET stats_content_ == file[1]
             instructions == parse_stat(stats_content_, NUM_INSTS)
             cpu_cycles == parse_stat(stats_content_, NUM_CYCLES)
             l1d_hits == parse_stat(stats_content_, L1D_HITS)
             l1d_misses == parse_stat(stats_content_, L1D_MISSES)
             l1d_accesses == parse_stat(stats_content_, L1D_ACCESSES)
             l1i_misses == parse_stat(stats_content_, L1I_MISSES)
             l1i_accesses == parse_stat(stats_content_, L1I_ACCESSES)
             l2_misses == parse_stat(stats_content_, L2_MISSES)
             l2_accesses == parse_stat(stats_content_, L2_ACCESSES)
             l1_replacements == parse_stat(stats_content_, L1_REPLACEMENTS)
             avg_gap == parse_stat(stats_content_, AVG_GAP)
         IN  Some([instructions_committed |-> instructions,
                   avg_gap_between_requests |-> avg_gap,
                   l1d_hits |-> l1d_hits,
                   l1d_replacements |-> l1_replacements,
                   l1d_miss_rate |-> calc_miss_rate(l1d_misses, l1d_accesses),
                   l1i_miss_rate |-> calc_miss_rate(l1i_misses, l1i_accesses),
                   l2_miss_rate |-> calc_miss_rate(l2_misses, l2_accesses),
                   cpu_cycles |-> cpu_cycles])

-----------------------------------------------------------------------------
(* classify_misses.py: extract_l1d_misses *)

\* extract_l1d_misses: None when stats.txt does not exist, when the stat is not
\* found or when its value is the empty string; int(value) otherwise, which
\* raises ValueError on a value that is no integer. file is None or Some(text)
extract_l1d_misses(file) ==
    IF file = None THEN [raised |-> FALSE, value |-> None]
    ELSE LET l1d_misses == cm_parse_stat(file[1], L1D_MISSES)
         IN  IF l1d_misses # None /\ l1d_misses[1] # <<>>
             THEN IF IsNumber(l1d_misses[1])
                  THEN [raised |-> FALSE, value |-> Some(IntVal(l1d_misses[1]))]
                  ELSE [raised |-> TRUE, value |-> None]
             ELSE [raised |-> FALSE, value |-> None]

-----------------------------------------------------------------------------
(* The stats.txt files of the model: gem5's layout, one line per stat,       *)
(* "<name>   <value>   # (Count)", after a banner line.                      *)

Banner == <<"-", "-", "-", " ", "B", "e", "g", "i", "n", " ", "-", "-", "-", "\n">>
Gap == <<" ", " ", " ">>
Comment == <<"#", " ", "(", "C", "o", "u", "n", "t", ")">>

\* a stat's line; nothing when the stat is absent (c = None)
StatLine(name, c) ==
    IF c = None THEN <<>> ELSE name \o Gap \o c[1] \o Gap \o Comment \o <<"\n">>

\* the text whose stats carry the tokens m, a, o (each None or Some(token))
stats_text(m, a, o) ==
    Banner
        \o StatLine(NUM_INSTS, o)
        \o StatLine(NUM_CYCLES, a)
        \o StatLine(L1D_HITS, m)
        \o StatLine(L1D_MISSES, m)
        \o StatLine(L1D_ACCESSES, a)
        \o StatLine(L1I_MISSES, o)
        \o StatLine(L1I_ACCESSES, m)
        \o StatLine(L2_MISSES, a)
        \o StatLine(L2_ACCESSES, o)
        \o StatLine(L1_REPLACEMENTS, o)
        \o StatLine(AVG_GAP, m)

\* A stats.txt is kept in the state as its report: the tokens (each None or
\* Some(token)) the simulator wrote for the stats; its text is read from that
Report(m, a, o) == [m |-> m, a |-> a, o |-> o]

ReportText(r) == stats_text(r.m, r.a, r.o)

\* stats_file.exists() and f.read(): None for no file, else Some(text)
read_stats_file(file) == IF file = None THEN None ELSE Some(ReportText(file[1]))

\* the tokens a stat may carry: counts, a negative count, a word, the text
\* N/A, a count with a comment glued to it, a bare comment
Tokens ==
    {DecStr(n) : n \in 0..MaxCount}
        \cup {<<"-", "2">>, <<"x">>, NA, <<"2", "#", "c">>, <<"#", "c">>}

TokenChoices == {None} \cup {Some(t) : t \in Tokens}

-----------------------------------------------------------------------------
(* Texts of the command lines *)

T_1GHz == <<"1", "G", "H", "z">>
T_0_8GHz == <<"0", ".", "8", "G", "H", "z">>
T_1_2GHz == <<"1", ".", "2", "G", "H", "z">>
T_1kB == <<"1", "k", "B">>
T_2kB == <<"2", "k", "B">>
T_4kB == <<"4", "k", "B">>
T_8kB == <<"8", "k", "B">>
T_64KiB == <<"6", "4", "K", "i", "B">>
T_queens == <<"q", "u", "e", "e", "n", "s">>
T_daxpy == <<"d", "a", "x", "p", "y">>
T_LocalBP == <<"L", "o", "c", "a", "l", "B", "P">>
T_TournamentBP == <<"T", "o", "u", "r", "n", "a", "m", "e", "n", "t", "B", "P">>

\* the option names the drivers write
D_prog == <<"-", "-", "p", "r", "o", "g">>
D_bp == <<"-", "-", "b", "p">>
D_bp_size == <<"-", "-", "b", "p", "_", "s", "i", "z", "e">>
D_bp_bits == <<"-", "-", "b", "p", "_", "b", "i", "t", "s">>
D_l1d_size == <<"-", "-", "l", "1", "d", "_", "s", "i", "z", "e">>
D_l1d_assoc == <<"-", "-", "l", "1", "d", "_", "a", "s", "s", "o", "c">>
D_clock_freq == <<"-", "-", "c", "l", "o", "c", "k", "_", "f", "r", "e", "q">>

\* f"{option}={value}"
Arg(option, value) == option \o <<"=">> \o value

-----------------------------------------------------------------------------
(* run_experiments.py: the driver *)

\* (clock_freq, l1d_assoc, l1d_size)
CONFIGS ==
    << <<T_1GHz, 2, T_1kB>>, <<T_1GHz, 2, T_2kB>>,
       <<T_1GHz, 2, T_4kB>>, <<T_1GHz, 2, T_8kB>>,
       <<T_0_8GHz, 4, T_1kB>>, <<T_0_8GHz, 4, T_2kB>>,
       <<T_0_8GHz, 4, T_4kB>>, <<T_0_8GHz, 4, T_8kB>> >>

PROGRAM == T_queens
BP_TYPE == T_LocalBP
BP_SIZE == 16
BP_BITS == 2

\* the arguments run_gem5_simulation passes to assignment3.py (cmd[3:]; cmd[0:3]
\* are the simulator binary, its --outdir and the script's path)
run_gem5_simulation_cmd(clock_freq, l1d_assoc, l1d_size) ==
    << Arg(D_prog, PROGRAM),
       Arg(D_bp, BP_TYPE),
       Arg(D_bp_size, DecStr(BP_SIZE)),
       Arg(D_bp_bits, DecStr(BP_BITS)),
       Arg(D_l1d_size, l1d_size),
       Arg(D_l1d_assoc, DecStr(l1d_assoc)),
       Arg(D_clock_freq, clock_freq) >>

\* a run_gem5_simulation that does not check the returncode (check=False)
run_gem5_simulation_unchecked(returncode) == TRUE

\* what run_gem5_simulation returns for the subprocess's returncode:
\* subprocess.run(check=True) raises CalledProcessError on a non-zero one,
\* which is caught (False); True otherwise
run_gem5_simulation_result(returncode) == returncode = 0

\* the returncodes of the simulator: success, a failure
ReturnCodes == {0, 1}

\* what a simulator run may leave as <output_dir>/stats.txt: nothing, or the
\* report of that configuration (a failed run may leave an earlier run's file)
ExpStatsFiles(i) ==
    {None, Some(Report(Some(DecStr(i)), Some(DecStr(3 * i)), Some(DecStr(100 * i))))}

\* extract_metrics on each of those files (computed once per file)
ExpMetrics ==
    [f \in UNION {ExpStatsFiles(i) : i \in 1..Len(CONFIGS)} |->
        extract_metrics(read_stats_file(f))]

fieldnames ==
    <<"clock_freq", "l1d_assoc", "l1d_size", "instructions_committed",
      "avg_gap_between_requests", "l1d_hits", "l1d_replacements", "l1d_miss_rate",
      "l1i_miss_rate", "l2_miss_rate", "cpu_cycles">>

\* a launch that does not wait for the subprocess (Popen without wait): the
\* loop goes on to the next configuration
ExpLaunchNoWait ==
    /\ prog = "run_experiments"
    /\ pc = "loop"
    /\ running' = running \cup
           {[config |-> idx,
             cmd |-> run_gem5_simulation_cmd(CONFIGS[idx][1], CONFIGS[idx][2], CONFIGS[idx][3])]}
    /\ launched' = Append(launched, idx)
    /\ idx' = idx + 1
    /\ pc' = IF idx + 1 > Len(CONFIGS) THEN "after_loop" ELSE "loop"
    /\ UNCHANGED <<prog, exit_status, stats_file, success, results, breakdown,
                   verification, csv_file, exit_code, parseVars, scriptVars>>

\* main, lines 150-157: the next configuration's subprocess is started;
\* subprocess.run blocks until it exits
ExpLaunch ==
    /\ prog = "run_experiments"
    /\ pc = "loop"
    /\ running' = running \cup
           {[config |-> idx,
             cmd |-> run_gem5_simulation_cmd(CONFIGS[idx][1], CONFIGS[idx][2], CONFIGS[idx][3])]}
    /\ launched' = Append(launched, idx)
    /\ pc' = "wait"
    /\ UNCHANGED <<prog, idx, exit_status, stats_file, success, results, breakdown,
                   verification, csv_file, exit_code, parseVars, scriptVars>>

\* the subprocess exits; run_gem5_simulation returns
ExpSimReturn ==
    /\ prog = "run_experiments"
    /\ pc = "wait"
    /\ \E p \in running, rc \in ReturnCodes :
         \E f \in ExpStatsFiles(p.config) :
            /\ running' = running \ {p}
            /\ exit_status' = [exit_status EXCEPT ![p.config] = rc]
            /\ stats_file' = [stats_file EXCEPT ![p.config] = f]
            /\ success' = run_gem5_simulation_result(rc)
    /\ pc' = "returned"
    /\ UNCHANGED <<prog, idx, launched, results, breakdown, verification, csv_file,
                   exit_code, parseVars, scriptVars>>

\* a loop body without the 'continue' of a failed run
ExpCollectResultsNoSkip ==
    LET metrics == ExpMetrics[stats_file[idx]]
    IN  IF metrics # None
        THEN Append(results,
                    [clock_freq |-> CONFIGS[idx][1],
                     l1d_assoc |-> CONFIGS[idx][2],
                     l1d_size |-> CONFIGS[idx][3]] @@ metrics[1])
        ELSE results

\* main, lines 159-176: the rest of the loop body. A failed run is skipped;
\* otherwise the metrics, when there are any, are appended as a row
ExpCollectResults ==
    IF ~success THEN results
    ELSE LET metrics == ExpMetrics[stats_file[idx]]
         IN  IF metrics # None
             THEN Append(results,
                         [clock_freq |-> CONFIGS[idx][1],
                          l1d_assoc |-> CONFIGS[idx][2],
                          l1d_size |-> CONFIGS[idx][3]] @@ metrics[1])
             ELSE results

ExpCollect ==
    /\ prog = "run_experiments"
    /\ pc = "returned"
    /\ results' = ExpCollectResults
    /\ idx' = idx + 1
    /\ pc' = IF idx + 1 > Len(CONFIGS) THEN "after_loop" ELSE "loop"
    /\ UNCHANGED <<prog, running, launched, exit_status, stats_file, success, breakdown,
                   verification, csv_file, exit_code, parseVars, scriptVars>>

\* the CSV csv.DictWriter writes: the header and one line per row, the fields
\* in the order of fieldnames
ExpCsv(rows) ==
    [header |-> fieldnames,
     rows |-> [i \in 1..Len(rows) |-> [k \in 1..Len(fieldnames) |-> rows[i][fieldnames[k]]]]]

\* main, lines 178-203: the CSV is written when there are results
ExpWriteCsv ==
    /\ prog = "run_experiments"
    /\ pc = "after_loop"
    /\ csv_file' = IF results # <<>> THEN Some(ExpCsv(results)) ELSE None
    /\ pc' = "done"
    /\ exit_code' = 0
    /\ UNCHANGED <<prog, idx, running, launched, exit_status, stats_file, success, results,
                   breakdown, verification, parseVars, scriptVars>>

-----------------------------------------------------------------------------
(* classify_misses.py: the driver *)

\* (name, l1d_size, l1d_assoc, purpose)
cm_CONFIGS ==
    << <<"baseline", T_1kB, 2, "Total misses (cold + capacity + conflict)">>,
       <<"no_conflict", T_1kB, 8, "Cold + capacity misses (no conflict)">>,
       <<"no_capacity", T_8kB, 8, "Cold misses only (no capacity, no conflict)">> >>

cm_CLOCK_FREQ == T_1GHz
cm_PROGRAM == T_queens
cm_BP_TYPE == T_LocalBP
cm_BP_SIZE == 2048
cm_BP_BITS == 2

\* the arguments classify_misses.run_gem5_simulation passes to assignment3.py
cm_run_gem5_simulation_cmd(l1d_size, l1d_assoc) ==
    << Arg(D_prog, cm_PROGRAM),
       Arg(D_bp, cm_BP_TYPE),
       Arg(D_bp_size, DecStr(cm_BP_SIZE)),
       Arg(D_bp_bits, DecStr(cm_BP_BITS)),
       Arg(D_l1d_size, l1d_size),
       Arg(D_l1d_assoc, DecStr(l1d_assoc)),
       Arg(D_clock_freq, cm_CLOCK_FREQ) >>

\* what classify_misses.run_gem5_simulation returns for the returncode
cm_run_gem5_simulation_result(returncode) == returncode = 0

\* what a simulator run may leave as <output_dir>/stats.txt: nothing, a report
\* without the L1D miss stat, or a report whose L1D miss stat carries a token
CmMissTokens ==
    {DecStr(n) : n \in 0..MaxMisses} \cup {<<"x">>, <<"#", "c">>}

CmStatsFiles ==
    {None, Some(Report(None, Some(<<"7">>), None))}
        \cup {Some(Report(Some(t), None, None)) : t \in CmMissTokens}

\* main, lines 114-119: the next configuration's subprocess is started;
\* subprocess.run blocks until it exits
CmLaunch ==
    /\ prog = "classify_misses"
    /\ pc = "loop"
    /\ running' = running \cup
           {[config |-> idx,
             cmd |-> cm_run_gem5_simulation_cmd(cm_CONFIGS[idx][2], cm_CONFIGS[idx][3])]}
    /\ launched' = Append(launched, idx)
    /\ pc' = "wait"
    /\ UNCHANGED <<prog, idx, exit_status, stats_file, success, results, breakdown,
                   verification, csv_file, exit_code, parseVars, scriptVars>>

\* the subprocess exits; run_gem5_simulation returns
CmSimReturn ==
    /\ prog = "classify_misses"
    /\ pc = "wait"
    /\ \E p \in running, rc \in ReturnCodes :
         \E f \in CmStatsFiles :
            /\ running' = running \ {p}
            /\ exit_status' = [exit_status EXCEPT ![p.config] = rc]
            /\ stats_file' = [stats_file EXCEPT ![p.config] = f]
            /\ success' = cm_run_gem5_simulation_result(rc)
    /\ pc' = "returned"
    /\ UNCHANGED <<prog, idx, launched, results, breakdown, verification, csv_file,
                   exit_code, parseVars, scriptVars>>

\* main, lines 121-137: the rest of the loop body. A failed run is skipped;
\* otherwise a miss count, when there is one, is stored under the
\* configuration's name. The ValueError of int() is not caught: main ends
CmCollect ==
    /\ prog = "classify_misses"
    /\ pc = "returned"
    /\ LET misses == extract_l1d_misses(read_stats_file(stats_file[idx]))
           name == cm_CONFIGS[idx][1]
       IN  IF ~success
           THEN /\ results' = results
                /\ idx' = idx + 1
                /\ pc' = IF idx + 1 > Len(cm_CONFIGS) THEN "after_loop" ELSE "loop"
                /\ exit_code' = exit_code
           ELSE IF misses.raised
           THEN /\ results' = results
                /\ idx' = idx
                /\ pc' = "crashed"
                /\ exit_code' = 1
           ELSE /\ results' =
                      IF misses.value # None
                      THEN (name :> [l1d_size |-> cm_CONFIGS[idx][2],
                                     l1d_assoc |-> cm_CONFIGS[idx][3],
                                     misses |-> misses.value[1],
                                     purpose |-> cm_CONFIGS[idx][4]]) @@ results
                      ELSE results
                /\ idx' = idx + 1
                /\ pc' = IF idx + 1 > Len(cm_CONFIGS) THEN "after_loop" ELSE "loop"
                /\ exit_code' = exit_code
    /\ UNCHANGED <<prog, running, launched, exit_status, stats_file, success, breakdown,
                   verification, csv_file, parseVars, scriptVars>>

\* a decomposition that takes the capacity misses from the baseline run
capacity_of_from_total(total_misses, cold_capacity_misses, cold_misses) ==
    total_misses - cold_misses

\* lines 145-150: the decomposition
capacity_of(total_misses, cold_capacity_misses, cold_misses) ==
    cold_capacity_misses - cold_misses

conflict_of(total_misses, cold_capacity_misses, cold_misses) ==
    total_misses - cold_capacity_misses

\* 100*x/total as the percentage cells print it (the '.1f' rounding of the
\* quotient is not computed: the cell is kept as the quotient's two terms)
Percentage(x, total) == [num |-> 100 * x, den |-> total]

\* lines 168-204: the header and the four rows of miss_classification.csv
CmCsv(b) ==
    [header |-> <<"Miss Type", "Total Misses", "Percentage",
                  "Configuration Used To Discover This">>,
     rows |-> << <<"Total", b.total, "100%",
                   <<results["baseline"].l1d_size, results["baseline"].l1d_assoc>> >>,
                 <<"Cold", b.cold, Percentage(b.cold, b.total),
                   <<results["no_capacity"].l1d_size, results["no_capacity"].l1d_assoc>> >>,
                 <<"Capacity", b.capacity, Percentage(b.capacity, b.total),
                   "Difference between (1kB, 8-way) and (8kB, 8-way)">>,
                 <<"Conflict", b.conflict, Percentage(b.conflict, b.total),
                   "Difference between (1kB, 2-way) and (1kB, 8-way)">> >>]

\* main, lines 139-209: with three results the breakdown is computed, printed
\* (the percentages divide by total_misses: ZeroDivisionError at line 155 when it
\* is 0, uncaught), verified and written; otherwise only a message is printed
CmClassify ==
    /\ prog = "classify_misses"
    /\ pc = "after_loop"
    /\ IF Cardinality(DOMAIN results) = 3
       THEN LET total_misses == results["baseline"].misses
                cold_capacity_misses == results["no_conflict"].misses
                cold_misses == results["no_capacity"].misses
                b == [total |-> total_misses,
                      cold_capacity |-> cold_capacity_misses,
                      cold |-> cold_misses,
                      capacity |-> capacity_of(total_misses, cold_capacity_misses, cold_misses),
                      conflict |-> conflict_of(total_misses, cold_capacity_misses, cold_misses)]
            IN  /\ breakdown' = Some(b)
                /\ IF total_misses = 0
                   THEN /\ verification' = "none"
                        /\ csv_file' = None
                        /\ pc' = "crashed"
                        /\ exit_code' = 1
                   ELSE /\ verification' =
                              IF b.cold + b.capacity + b.conflict = b.total
                              THEN "passed" ELSE "warning"
                        /\ csv_file' = Some(CmCsv(b))
                        /\ pc' = "done"
                        /\ exit_code' = 0
       ELSE /\ breakdown' = None
            /\ verification' = "none"
            /\ csv_file' = None
            /\ pc' = "done"
            /\ exit_code' = 0
    /\ UNCHANGED <<prog, idx, running, launched, exit_status, stats_file, success, results,
                   parseVars, scriptVars>>

-----------------------------------------------------------------------------
(* assignment3.py: the argument parser *)

\* the option strings of the add_argument calls, and argparse's own --help
O_prog == <<"-", "-", "p", "r", "o", "g">>
O_daxpy_N == <<"-", "-", "d", "a", "x", "p", "y", "-", "N">>
O_queens_N == <<"-", "-", "q", "u", "e", "e", "n", "s", "-", "N">>
O_bp == <<"-", "-", "b", "p">>
O_bp_size == <<"-", "-", "b", "p", "_", "s", "i", "z", "e">>
O_bp_bits == <<"-", "-", "b", "p", "_", "b", "i", "t", "s">>
O_clock_freq == <<"-", "-", "c", "l", "o", "c", "k", ".", "f", "r", "e", "q">>
O_l1d_assoc == <<"-", "-", "l", "1", "d", ".", "a", "s", "s", "o", "c">>
O_l1d_size == <<"-", "-", "l", "1", "d", ".", "s", "i", "z", "e">>
O_help == <<"-", "-", "h", "e", "l", "p">>

\* the attribute names the script reads from args
A_prog == <<"p", "r", "o", "g">>
A_daxpy_N == <<"d", "a", "x", "p", "y", "_", "N">>
A_queens_N == <<"q", "u", "e", "e", "n", "s", "_", "N">>
A_bp == <<"b", "p">>
A_bp_size == <<"b", "p", "_", "s", "i", "z", "e">>
A_bp_bits == <<"b", "p", "_", "b", "i", "t", "s">>
A_l1d_size == <<"l", "1", "d", "_", "s", "i", "z", "e">>
A_l1d_assoc == <<"l", "1", "d", "_", "a", "s", "s", "o", "c">>

\* argparse's dest of a long option: the option string without its "--", each
\* '-' replaced by '_' (no other character is changed)
dest_of(option) ==
    [k \in 1..(Len(option) - 2) |->
        IF option[k + 2] = "-" THEN "_" ELSE option[k + 2]]

\* lines 25-34: the parser's arguments. A string default of a typed argument is
\* converted by the type (l1d.assoc: "8" -> 8)
parser ==
    << [option |-> O_help, type |-> "help", default |-> None, required |-> FALSE],
       [option |-> O_prog, type |-> "str", default |-> None, required |-> TRUE],
       [option |-> O_daxpy_N, type |-> "int", default |-> Some(100), required |-> FALSE],
       [option |-> O_queens_N, type |-> "int", default |-> Some(10), required |-> FALSE],
       [option |-> O_bp, type |-> "str", default |-> None, required |-> FALSE],
       [option |-> O_bp_size, type |-> "int", default |-> None, required |-> FALSE],
       [option |-> O_bp_bits, type |-> "int", default |-> None, required |-> FALSE],
       [option |-> O_clock_freq, type |-> "str", default |-> Some(T_1GHz), required |-> FALSE],
       [option |-> O_l1d_assoc, type |-> "int", default |-> Some(IntVal(<<"8">>)), required |-> FALSE],
       [option |-> O_l1d_size, type |-> "str", default |-> Some(T_64KiB), required |-> FALSE] >>

prog_choices == {T_daxpy, T_queens}

\* the arguments that are stored in the namespace (--help is not)
Stored == {k \in 1..Len(parser) : parser[k].type # "help"}

\* the namespace before any argument is read: every dest with its default
defaults ==
    [d \in {dest_of(parser[k].option) : k \in Stored} |->
        parser[CHOOSE k \in Stored : dest_of(parser[k].option) = d].default]

\* "--option=value": the option string and the explicit argument
EqPos(arg) ==
    LET at == {k \in 1..Len(arg) : arg[k] = "="}
    IN  IF at = {} THEN 0 ELSE CHOOSE k \in at : \A j \in at : k <= j

option_string(arg) == SubSeq(arg, 1, EqPos(arg) - 1)
explicit_arg(arg) == SubSeq(arg, EqPos(arg) + 1, Len(arg))

startswith(text, prefix) ==
    Len(prefix) <= Len(text) /\ SubSeq(text, 1, Len(prefix)) = prefix

\* argparse's lookup of an option string: the argument with exactly that option
\* string, else the only one it abbreviates; 0 when it abbreviates none
\* (unrecognized), -1 when it abbreviates several (ambiguous)
lookup_option(opt) ==
    LET exact == {k \in 1..Len(parser) : parser[k].option = opt}
        abbreviated == {k \in 1..Len(parser) : startswith(parser[k].option, opt)}
    IN  IF exact # {} THEN CHOOSE k \in exact : TRUE
        ELSE IF Cardinality(abbreviated) = 1 THEN CHOOSE k \in abbreviated : TRUE
        ELSE IF abbreviated = {} THEN 0
        ELSE -1

\* the value stored for argument k given the explicit argument v, None when
\* argparse rejects it (int() raises, a --prog outside its choices, a value
\* given to --help)
convert(k, v) ==
    CASE parser[k].type = "help" -> None
      [] parser[k].type = "int" -> IF IsNumber(v) THEN Some(Some(IntVal(v))) ELSE None
      [] parser[k].option = O_prog -> IF v \in prog_choices THEN Some(Some(v)) ELSE None
      [] OTHER -> Some(Some(v))

\* parser.parse_args over "--option=value" arguments: the namespace, or the
\* usage error (exit status 2) of an unrecognized, ambiguous or invalid argument
\* or of a missing required one
RECURSIVE parse_from(_, _, _)
parse_from(rest, ns, seen) ==
    IF rest = <<>>
    THEN [ok |-> \A k \in Stored : parser[k].required => k \in seen, ns |-> ns]
    ELSE LET k == lookup_option(option_string(Head(rest)))
         IN  IF k <= 0 THEN [ok |-> FALSE, ns |-> ns]
             ELSE LET v == convert(k, explicit_arg(Head(rest)))
                  IN  IF v = None THEN [ok |-> FALSE, ns |-> ns]
                      ELSE parse_from(Tail(rest),
                                      [ns EXCEPT ![dest_of(parser[k].option)] = v[1]],
                                      seen \cup {k})

parse_args(arguments) == parse_from(arguments, defaults, {})

-----------------------------------------------------------------------------
(* assignment3.py: the script *)

\* args.<name>: AttributeError when the namespace has no such attribute
hasattr(ns, name) == name \in DOMAIN ns

\* line 36: args = parser.parse_args()
ParseArgs ==
    /\ spc = "start"
    /\ LET r == parse_args(argv)
       IN  IF r.ok
           THEN /\ args' = r.ns
                /\ spc' = "parsed"
                /\ script_exit' = script_exit
           ELSE /\ args' = args
                /\ spc' = "usage_error"
                /\ script_exit' = 2
    /\ UNCHANGED <<argv, launcher, isa, bp_core, cache_hierarchy, board,
                   parseVars, driverVars>>

\* lines 56-73: the branch predictor of the core
branch_predictor(ns) ==
    IF ns[A_bp] = Some(T_TournamentBP)
    THEN [type |-> "TournamentBP",
          localPredictorSize |-> ns[A_bp_size], localCtrBits |-> ns[A_bp_bits],
          globalPredictorSize |-> ns[A_bp_size], globalCtrBits |-> ns[A_bp_bits],
          choicePredictorSize |-> ns[A_bp_size], choiceCtrBits |-> ns[A_bp_bits],
          btb_numEntries |-> ns[A_bp_size]]
    ELSE [type |-> "LocalBP",
          localPredictorSize |-> ns[A_bp_size], localCtrBits |-> ns[A_bp_bits],
          btb_numEntries |-> ns[A_bp_size]]

\* lines 75-77: the clock frequency given to the board
clk_freq_of(the_isa) == IF the_isa \in {"ARM", "RISCV"} THEN T_1_2GHz ELSE T_1GHz

\* lines 80-88: the cache hierarchy
cache_hierarchy_of(ns) ==
    [l1d_size |-> ns[A_l1d_size], l1d_assoc |-> ns[A_l1d_assoc],
     l1i_size |-> <<"1", "6", "k", "B">>, l1i_assoc |-> 2,
     l2_size |-> <<"2", "5", "6", "k", "B">>, l2_assoc |-> 8, num_l2_banks |-> 1]

\* lines 94-99: the board
board_of(the_isa, cache) ==
    [clk_freq |-> clk_freq_of(the_isa), cache_hierarchy |-> cache]

\* lines 37-115: the rest of the script, straight-line. Reading args.l1d_size
\* or args.l1d_assoc raises AttributeError (exit status 1) when the namespace
\* has no such attribute; otherwise the board is built and simulator.run() runs
Configure ==
    /\ spc = "parsed"
    /\ bp_core' = Some(branch_predictor(args))
    /\ IF hasattr(args, A_l1d_size) /\ hasattr(args, A_l1d_assoc)
       THEN /\ cache_hierarchy' = Some(cache_hierarchy_of(args))
            /\ board' = Some(board_of(isa, cache_hierarchy_of(args)))
            /\ spc' = "ran"
            /\ script_exit' = 0
       ELSE /\ cache_hierarchy' = None
            /\ board' = None
            /\ spc' = "attribute_error"
            /\ script_exit' = 1
    /\ UNCHANGED <<argv, launcher, isa, args, parseVars, driverVars>>

-----------------------------------------------------------------------------
(* parse_stat applied to every short text *)

Alphabet == {"a", "b", "1", "#", " ", "\n"}
NameChars == {"a", "b"}

TextsUpTo(n) == UNION {[1..k -> Alphabet] : k \in 0..n}
Names == UNION {[1..k -> NameChars] : k \in 1..2}

\* no function-level call is part of the drivers' specification
ParseIdle ==
    /\ stats_content = <<>>
    /\ file_exists = FALSE
    /\ stat_name = <<>>
    /\ chosen = <<>>
    /\ called = "none"
    /\ ret = None

\* the script is not part of the other specifications
ScriptIdle ==
    /\ argv = <<>>
    /\ launcher = "none"
    /\ isa = "X86"
    /\ spc = "idle"
    /\ args = <<>>
    /\ bp_core = None
    /\ cache_hierarchy = None
    /\ board = None
    /\ script_exit = -1

\* the driver is not part of the function-level specifications
DriverIdle ==
    /\ prog = "none"
    /\ pc = "idle"
    /\ idx = 0
    /\ running = {}
    /\ launched = <<>>
    /\ exit_status = <<>>
    /\ stats_file = <<>>
    /\ success = FALSE
    /\ results = <<>>
    /\ breakdown = None
    /\ verification = "none"
    /\ csv_file = None
    /\ exit_code = -1

InitParse ==
    /\ stats_content \in TextsUpTo(MaxLen)
    /\ file_exists = TRUE
    /\ stat_name \in Names
    /\ chosen = <<>>
    /\ called = "none"
    /\ ret = None
    /\ DriverIdle
    /\ ScriptIdle

\* parse_stat(stats_content, stat_name) of run_experiments.py
CallParseStat ==
    /\ called = "none"
    /\ called' = "run_experiments.parse_stat"
    /\ ret' = parse_stat(stats_content, stat_name)
    /\ UNCHANGED <<stats_content, file_exists, stat_name, chosen, driverVars, scriptVars>>

\* parse_stat(stats_content, stat_name) of classify_misses.py
CallCmParseStat ==
    /\ called = "none"
    /\ called' = "classify_misses.parse_stat"
    /\ ret' = cm_parse_stat(stats_content, stat_name)
    /\ UNCHANGED <<stats_content, file_exists, stat_name, chosen, driverVars, scriptVars>>

NextParse == CallParseStat \/ CallCmParseStat

SpecParse == InitParse /\ [][NextParse]_vars

-----------------------------------------------------------------------------
(* extract_metrics and extract_l1d_misses applied to generated stats files *)

InitMetrics ==
    /\ chosen \in [{"m", "a", "o"} -> TokenChoices]
    /\ stats_content = stats_text(chosen["m"], chosen["a"], chosen["o"])
    /\ file_exists \in BOOLEAN
    /\ stat_name = <<>>
    /\ called = "none"
    /\ ret = None
    /\ DriverIdle
    /\ ScriptIdle

TheFile == IF file_exists THEN Some(stats_content) ELSE None

\* extract_metrics(output_dir) of run_experiments.py
CallExtractMetrics ==
    /\ called = "none"
    /\ called' = "extract_metrics"
    /\ ret' = extract_metrics(TheFile)
    /\ UNCHANGED <<stats_content, file_exists, stat_name, chosen, driverVars, scriptVars>>

\* extract_l1d_misses(output_dir) of classify_misses.py
CallExtractL1dMisses ==
    /\ called = "none"
    /\ called' = "extract_l1d_misses"
    /\ ret' = extract_l1d_misses(TheFile)
    /\ UNCHANGED <<stats_content, file_exists, stat_name, chosen, driverVars, scriptVars>>

NextMetrics == CallExtractMetrics \/ CallExtractL1dMisses

SpecMetrics == InitMetrics /\ [][NextMetrics]_vars

-----------------------------------------------------------------------------
(* The drivers *)

NumConfigs(p) == IF p = "run_experiments" THEN Len(CONFIGS) ELSE Len(cm_CONFIGS)

\* either driver is started; main begins with empty results
Init ==
    /\ prog \in {"run_experiments", "classify_misses"}
    /\ pc = "loop"
    /\ idx = 1
    /\ running = {}
    /\ launched = <<>>
    /\ exit_status = [i \in 1..NumConfigs(prog) |-> -1]
    /\ stats_file = [i \in 1..NumConfigs(prog) |-> None]
    /\ success = FALSE
    /\ results = <<>>
    /\ breakdown = None
    /\ verification = "none"
    /\ csv_file = None
    /\ exit_code = -1
    /\ ParseIdle
    /\ ScriptIdle

Next ==
    \/ ExpLaunch
    \/ ExpSimReturn
    \/ ExpCollect
    \/ ExpWriteCsv
    \/ CmLaunch
    \/ CmSimReturn
    \/ CmCollect
    \/ CmClassify

Spec == Init /\ [][Next]_vars

-----------------------------------------------------------------------------
(* assignment3.py run on a command line *)

\* the command lines of run_experiments.main, one per entry of CONFIGS
ExpCommandLines ==
    {run_gem5_simulation_cmd(CONFIGS[i][1], CONFIGS[i][2], CONFIGS[i][3]) :
        i \in 1..Len(CONFIGS)}

\* the command lines of classify_misses.main
CmCommandLines ==
    {cm_run_gem5_simulation_cmd(cm_CONFIGS[i][2], cm_CONFIGS[i][3]) :
        i \in 1..Len(cm_CONFIGS)}

\* an optional "--option=value"
Opt(option, values) == {<<>>} \cup {<<Arg(option, v)>> : v \in values}

\* command lines typed with the parser's own option strings, some abbreviated,
\* some invalid
ShellCommandLines ==
    {p \o c \o sz \o a \o b :
        p \in Opt(O_prog, {T_queens, T_daxpy, <<"l", "s">>}),
        c \in Opt(O_clock_freq, {T_1GHz, T_0_8GHz}),
        sz \in Opt(O_l1d_size, {T_1kB, T_8kB}) \cup Opt(<<"-", "-", "l", "1", "d", ".", "s">>, {T_2kB})
                 \cup Opt(<<"-", "-", "l", "1">>, {T_4kB}),
        a \in Opt(O_l1d_assoc, {<<"2">>, <<"x">>}),
        b \in Opt(O_bp, {T_TournamentBP}) \cup Opt(O_bp_size, {<<"1", "6">>})}

InitScript ==
    /\ \/ launcher = "run_experiments" /\ argv \in ExpCommandLines /\ isa = "X86"
       \/ launcher = "classify_misses" /\ argv \in CmCommandLines /\ isa = "X86"
       \/ launcher = "shell" /\ argv \in ShellCommandLines /\ isa \in {"X86", "ARM", "RISCV"}
    /\ spc = "start"
    /\ args = <<>>
    /\ bp_core = None
    /\ cache_hierarchy = None
    /\ board = None
    /\ script_exit = -1
    /\ ParseIdle
    /\ DriverIdle

NextScript == ParseArgs \/ Configure

SpecScript == InitScript /\ [][NextScript]_vars

-----------------------------------------------------------------------------
(* Properties *)

DriverNames == {"run_experiments", "classify_misses"}

\* the driver has ended (normally or by an uncaught exception)
Terminated == exit_code # -1

\* C1: in classify_misses.main, whenever the three configurations yielded a miss
\* count, conflict = total - (cold+capacity) and capacity = (cold+capacity) - cold,
\* with total, cold+capacity and cold the counts of baseline, no_conflict and
\* no_capacity; so cold + capacity + conflict = total and the warning branch of
\* the verification is never taken.
C1_Decomposition ==
    prog = "classify_misses" =>
        /\ verification # "warning"
        /\ (pc \in {"done", "crashed"} /\ idx > Len(cm_CONFIGS)
                /\ Cardinality(DOMAIN results) = 3) => breakdown # None
        /\ breakdown # None =>
              LET b == breakdown[1]
              IN  /\ b.total = results["baseline"].misses
                  /\ b.cold_capacity = results["no_conflict"].misses
                  /\ b.cold = results["no_capacity"].misses
                  /\ b.conflict = b.total - b.cold_capacity
                  /\ b.capacity = b.cold_capacity - b.cold
                  /\ b.cold + b.capacity + b.conflict = b.total

\* C1's case: a breakdown with three non-zero parts was verified and written
C1_Witness ==
    /\ prog = "classify_misses"
    /\ pc = "done"
    /\ verification = "passed"
    /\ breakdown # None
    /\ breakdown[1].cold > 0
    /\ breakdown[1].capacity > 0
    /\ breakdown[1].conflict > 0

\* C2: each driver launches the simulator once per entry of CONFIGS, in list
\* order, never before the previous configuration's subprocess has returned, with
\* at most one subprocess alive; a driver that leaves its loop has launched every
\* entry exactly once.
C2_Sequential ==
    prog \in DriverNames =>
        /\ Cardinality(running) <= 1
        /\ launched = [k \in 1..Len(launched) |-> k]
        /\ Len(launched) <= NumConfigs(prog)
        /\ \A p \in running : p.config = launched[Len(launched)]
        /\ \A k \in 1..Len(launched) :
              exit_status[k] = -1 => \E p \in running : p.config = k
        /\ (pc \in {"after_loop", "done"} => Len(launched) = NumConfigs(prog))

\* C2's case: the last configuration of run_experiments runs, the seven before
\* it have returned
C2_Witness ==
    /\ prog = "run_experiments"
    /\ pc = "wait"
    /\ Len(launched) = Len(CONFIGS)
    /\ running # {}
    /\ \A k \in 1..(Len(CONFIGS) - 1) : exit_status[k] # -1

\* configuration i of the running driver has a result
HasResult(i) ==
    IF prog = "run_experiments"
    THEN \E k \in 1..Len(results) :
            <<results[k].clock_freq, results[k].l1d_assoc, results[k].l1d_size>> = CONFIGS[i]
    ELSE cm_CONFIGS[i][1] \in DOMAIN results

SomeRunFailed == \E i \in 1..NumConfigs(prog) : exit_status[i] > 0

\* C3 as stated: a subprocess's non-zero exit status is propagated, the failure
\* of the subprocess becomes the failure outcome of the driver.
C3_StatusPropagated ==
    prog \in DriverNames => (Terminated /\ SomeRunFailed => exit_code # 0)

\* C3 as amended: a failed run is caught (run_gem5_simulation returns False), its
\* configuration is skipped without a result and the loop goes on; the status is
\* not propagated: the driver never ends in failure on account of it, and a
\* driver whose runs all failed ends with exit status 0.
C3_SkipAndContinue ==
    prog \in DriverNames =>
        /\ (pc = "returned" /\ exit_status[idx] > 0 => ~success)
        /\ \A i \in 1..NumConfigs(prog) :
              exit_status[i] > 0 =>
                  /\ ~HasResult(i)
                  /\ idx > i \/ (idx = i /\ pc = "returned")
        /\ (exit_code = 1 =>
              \/ idx <= NumConfigs(prog) /\ exit_status[idx] = 0
              \/ idx > NumConfigs(prog) /\ ~SomeRunFailed)
        /\ (Terminated /\ (\A i \in 1..NumConfigs(prog) : exit_status[i] > 0)
              => exit_code = 0)

\* C3's case: run_experiments ended normally although a run failed, with the
\* rows of other runs written
C3_Witness ==
    /\ prog = "run_experiments"
    /\ pc = "done"
    /\ exit_code = 0
    /\ exit_status[1] > 0
    /\ stats_file[1] # None
    /\ exit_status[Len(CONFIGS)] > 0
    /\ Len(results) = 2
    /\ csv_file # None

\* the rest, after the name, of the line that starts at position i
RestOfLine(s, i, name) ==
    LET ends == {k \in i..Len(s) : s[k] = "\n"}
        stop == IF ends = {} THEN Len(s) + 1 ELSE CHOOSE k \in ends : \A j \in ends : k <= j
    IN  SubSeq(s, i + Len(name), stop - 1)

\* the first whitespace-delimited token of a text (empty when it has none)
FirstToken(t) == SubSeq(t, SkipSpace(t, 1), SkipNonSpace(t, SkipSpace(t, 1)) - 1)

\* the lines of stats_content that begin with stat_name followed by whitespace
NamedLines ==
    {i \in 1..Len(stats_content) :
        /\ LineStart(stats_content, i)
        /\ LiteralAt(stats_content, i, stat_name)
        /\ i + Len(stat_name) <= Len(stats_content)
        /\ IsSpace(stats_content[i + Len(stat_name)])}

ParseStatCalled == called \in {"run_experiments.parse_stat", "classify_misses.parse_stat"}
ParseStatFound == IF called = "run_experiments.parse_stat" THEN ret # NA ELSE ret # None
ParseStatValue == IF called = "run_experiments.parse_stat" THEN ret ELSE ret[1]

\* C5: parse_stat is line-anchored: a returned value is the first
\* whitespace-delimited token after the name on a line that begins with the
\* name, so it lies on the same line as the name (here even allowing the token
\* to be cut at a '#', and any such line to be the one); and when no line begins
\* with the name followed by whitespace the result is the not-found value.
C5_TokenOnSameLine ==
    ParseStatCalled =>
        /\ ParseStatFound =>
              \E i \in NamedLines :
                 LET token == FirstToken(RestOfLine(stats_content, i, stat_name))
                 IN  /\ token # <<>>
                     /\ ParseStatValue \in {token, split_hash_0(token)}
        /\ NamedLines = {} => ~ParseStatFound

\* the miss count configuration i yielded, as the stats.txt of a successful run
\* states it: Some(token) when the L1D miss line carries digits, else None
YieldedCount(i) ==
    IF exit_status[i] = 0 /\ stats_file[i] # None /\ stats_file[i][1].m # None
          /\ stats_file[i][1].m[1] \in {DecStr(n) : n \in 0..(MaxMisses + 1)}
    THEN stats_file[i][1].m
    ELSE None

AllThreeYielded == \A i \in 1..Len(cm_CONFIGS) : YieldedCount(i) # None

\* C6: classify_misses.main writes miss_classification.csv if and only if all
\* three configurations ran successfully and each yielded an L1D miss count; then
\* (for every triple of counts, a baseline count of 0 included) it completes and
\* writes the header and exactly the rows Total, Cold, Capacity, Conflict;
\* otherwise no CSV is written.
C6_CsvIffThreeCounts ==
    prog = "classify_misses" /\ Terminated =>
        /\ csv_file # None <=> AllThreeYielded
        /\ AllThreeYielded =>
              /\ pc = "done"
              /\ Len(csv_file[1].rows) = 4
              /\ [k \in 1..4 |-> csv_file[1].rows[k][1]]
                    = <<"Total", "Cold", "Capacity", "Conflict">>

\* the handled configurations of run_experiments whose run succeeded and left a
\* stats.txt, in CONFIGS order
Kept(i) == exit_status[i] = 0 /\ stats_file[i] # None
KeptConfigs == SelectSeq([i \in 1..(idx - 1) |-> i], Kept)

\* C7: in run_experiments.main a configuration whose run fails or whose stats.txt
\* is missing is skipped and the loop continues; the results hold exactly one row
\* per configuration that succeeded and had a stats file, in CONFIGS order, and
\* experiment_results.csv is written if and only if that list is non-empty.
C7_RowsOfSucceeded ==
    prog = "run_experiments" =>
        /\ Len(results) = Len(KeptConfigs)
        /\ \A k \in 1..Len(results) :
              <<results[k].clock_freq, results[k].l1d_assoc, results[k].l1d_size>>
                  = CONFIGS[KeptConfigs[k]]
        /\ (pc = "done" =>
              /\ idx = Len(CONFIGS) + 1
              /\ csv_file # None <=> results # <<>>
              /\ csv_file # None => Len(csv_file[1].rows) = Len(results))
        /\ (pc # "done" => csv_file = None)

\* C7's case: runs failed (one leaving a stale stats.txt), a successful run left
\* no stats.txt, and the rows of the others were written
C7_Witness ==
    /\ prog = "run_experiments"
    /\ pc = "done"
    /\ exit_status[2] > 0 /\ stats_file[2] # None
    /\ exit_status[3] = 0 /\ stats_file[3] = None
    /\ Len(results) = 5
    /\ csv_file # None
    /\ Len(csv_file[1].rows) = 5

\* what a stats line states, read off the token written on it: the text before
\* a '#', "N/A" for a stat that has no line
Stated(c) ==
    IF c = None THEN NA
    ELSE IF c[1] = <<"2", "#", "c">> THEN <<"2">>
    ELSE IF c[1] = <<"#", "c">> THEN <<>>
    ELSE c[1]

\* the number a stated value writes, for those that write one
CountTexts == [n \in 0..(MaxCount + 1) |-> DecStr(n)]
IsCount(v) == \E n \in DOMAIN CountTexts : CountTexts[n] = v
CountOf(v) == CHOOSE n \in DOMAIN CountTexts : CountTexts[n] = v
Numeric(v) == IsCount(v) \/ v = <<"-", "2">>
NumberOf(v) == IF v = <<"-", "2">> THEN -2 ELSE CountOf(v)

\* the millionths a printed rate "d.dddddd" stands for
Millionths(rate) ==
    LET dot == CHOOSE k \in 1..Len(rate) : rate[k] = "."
    IN  1000000 * DecVal(SubSeq(rate, 1, dot - 1)) + DecVal(SubSeq(rate, dot + 1, Len(rate)))

Abs(x) == IF x < 0 THEN 0 - x ELSE x

\* a rate field is right for the stated misses and accesses: "N/A" exactly when
\* the accesses are "N/A", not a number or not positive, or the misses are not a
\* number; otherwise the quotient to the nearest millionth, with its sign
RateRight(rate, misses, accesses) ==
    IF accesses = NA \/ ~Numeric(accesses) \/ ~Numeric(misses) \/ NumberOf(accesses) <= 0
    THEN rate = NA
    ELSE /\ rate # NA
         /\ LET neg == NumberOf(misses) < 0
                shown == IF neg THEN Tail(rate) ELSE rate
            IN  /\ neg => Head(rate) = "-"
                /\ Len(shown) >= 8
                /\ shown[Len(shown) - 6] = "."
                /\ 2 * Abs(Millionths(shown) * NumberOf(accesses)
                               - 1000000 * Abs(NumberOf(misses))) <= NumberOf(accesses)

\* C8: in extract_metrics a statistic absent from an existing stats.txt never
\* drops the row: its field is 'N/A'; each miss rate is 'N/A' exactly when its
\* access count is 'N/A', not positive, or either operand is not numeric, and
\* otherwise is misses divided by accesses; None is returned only when stats.txt
\* does not exist.
C8_MetricsRow ==
    called = "extract_metrics" =>
        /\ ret = None <=> ~file_exists
        /\ file_exists =>
              LET row == ret[1]
                  m == Stated(chosen["m"])
                  a == Stated(chosen["a"])
                  o == Stated(chosen["o"])
              IN  /\ DOMAIN row = {"instructions_committed", "avg_gap_between_requests",
                                   "l1d_hits", "l1d_replacements", "l1d_miss_rate",
                                   "l1i_miss_rate", "l2_miss_rate", "cpu_cycles"}
                  /\ row.instructions_committed = o
                  /\ row.cpu_cycles = a
                  /\ row.l1d_hits = m
                  /\ row.l1d_replacements = o
                  /\ row.avg_gap_between_requests = m
                  /\ RateRight(row.l1d_miss_rate, m, a)
                  /\ RateRight(row.l1i_miss_rate, o, m)
                  /\ RateRight(row.l2_miss_rate, a, o)

\* C8's case: a stats.txt without the stats of the third group: their fields and
\* the rate over them are 'N/A', the other rates are 1/3 and 'N/A' (no misses)
C8_Witness ==
    /\ called = "extract_metrics"
    /\ file_exists
    /\ chosen["m"] = Some(<<"1">>) /\ chosen["a"] = Some(<<"3">>) /\ chosen["o"] = None
    /\ ret # None
    /\ ret[1].instructions_committed = NA
    /\ ret[1].l1d_miss_rate = <<"0", ".", "3", "3", "3", "3", "3", "3">>
    /\ ret[1].l1i_miss_rate = NA
    /\ ret[1].l2_miss_rate = NA

ScriptEnded == script_exit # -1

\* C4: assignment3.py translates its parameters into the configuration: for every
\* accepted clock-frequency, L1D-size and L1D-associativity value the board's
\* clock frequency and the cache hierarchy's l1d_size and l1d_assoc equal them.
C4_ParametersConfigured ==
    spc \in {"ran", "attribute_error"} =>
        /\ board # None
        /\ cache_hierarchy # None
        /\ Some(board[1].clk_freq) = args[dest_of(O_clock_freq)]
        /\ cache_hierarchy[1].l1d_size = args[dest_of(O_l1d_size)]
        /\ cache_hierarchy[1].l1d_assoc = args[dest_of(O_l1d_assoc)]

\* C9: every option a driver's run_gem5_simulation passes is one the parser
\* accepts and every attribute the script reads is one the parser defines, so a
\* driver-launched configuration reaches simulator.run().
C9_DriverLaunchRuns ==
    launcher \in DriverNames /\ ScriptEnded => spc = "ran" /\ script_exit = 0

=============================================================================
